---- MODULE Spec2Model ----
(***************************************************************************)
(* CalenAI: the event store (calendar_manager.py, class CalendarManager)   *)
(* and the operation dispatcher (ai_assistant.py,                          *)
(* process_calendar_operations), under Spec; the operation extractor       *)
(* (extract_calendar_operations), under SpecExtract; the time normalizer   *)
(* (convert_to_24h), under SpecTime; the context summarizer                *)
(* (get_calendar_context); and the construction of the store on a file in  *)
(* any state, under SpecLoad; and the main loop (main.py, main), under     *)
(* SpecMain.                                                               *)
(*                                                                         *)
(* Representation of Python values:                                        *)
(*   - a str is a TLA+ string; None and a JSON number are the two tokens   *)
(*     None and Number, which are not members of any set of strings the    *)
(*     model draws from;                                                   *)
(*   - a dict whose iteration order matters (self.events) is a sequence of *)
(*     [k, v] items in insertion order; a dict whose order does not matter *)
(*     (an event, an operation, the fields of an update) is a function     *)
(*     whose DOMAIN is its set of keys, so a missing key is a missing      *)
(*     element of the DOMAIN;                                              *)
(*   - a list is a sequence;                                               *)
(*   - str(uuid.uuid4()) is the next element of UuidPool: a value no call  *)
(*     has returned before and no input carries before it is drawn.        *)
(***************************************************************************)
EXTENDS Integers, Sequences, FiniteSets, TLC

VARIABLES events, events_type, file, loadFailed, uuids, pc, op, ret, before, result, returned,
          segments, response, json_blocks, block, operations,
          parts, time_str, minutes,
          history, history_file, lines, text_input, submitted

\* the store, and the locals of process_calendar_operations
dispatcherVars == <<events, events_type, file, loadFailed, uuids, op, ret, before, result, returned>>

\* the locals of extract_calendar_operations
extractorVars == <<segments, response, json_blocks, block, operations>>

\* the argument and the value of convert_to_24h
timeVars == <<parts, time_str, minutes>>

\* the locals of main, and the history file
mainVars == <<history, history_file, lines, text_input, submitted>>

vars == <<pc, dispatcherVars, extractorVars, timeVars, mainVars>>

(***************************************************************************)
(* Bounds of the model.                                                    *)
(***************************************************************************)
MaxUuids == 2
MaxEvents == 2
MaxBatch == 2

(***************************************************************************)
(* Python values.                                                          *)
(***************************************************************************)
None == "<None>"
Number == "<5>"

IsStr(v) == v \notin {None, Number}

\* a faulty Truthy: only None is false, the empty string passes
Truthy_NotNone(v) == v # None

\* bool(v) of a str, None or a non-zero number
Truthy(v) == v \notin {None, ""}

UuidPool == <<"u1", "u2", "u3", "u4", "u5", "u6">>

\* the characters of the strings that occur as titles, as times and as lines
\* of input
Chars(s) ==
  CASE s = "Gym" -> <<"G", "y", "m">>
    [] s = "9am" -> <<"9", "a", "m">>
    [] s = "10am" -> <<"1", "0", "a", "m">>
    [] s = "9:00am" -> <<"9", ":", "0", "0", "a", "m">>
    [] s = "2pm" -> <<"2", "p", "m">>
    [] s = "gym" -> <<"g", "y", "m">>
    [] s = "GY"  -> <<"G", "Y">>
    [] s = "Run" -> <<"R", "u", "n">>
    [] s = "un"  -> <<"u", "n">>
    [] s = ""    -> <<>>
    [] s = "exit" -> <<"e", "x", "i", "t">>
    [] s = "quit" -> <<"q", "u", "i", "t">>
    [] s = "Quit" -> <<"Q", "u", "i", "t">>

LowerChar(c) ==
  CASE c = "G" -> "g"
    [] c = "Y" -> "y"
    [] c = "R" -> "r"
    [] c = "A" -> "a"
    [] c = "P" -> "p"
    [] c = "M" -> "m"
    [] c = "Q" -> "q"
    [] OTHER -> c

\* str.lower(), on the characters of s
Lower(s) == [i \in 1..Len(Chars(s)) |-> LowerChar(Chars(s)[i])]

\* a in b, for two strings given by their characters
Contains(a, b) ==
  \E k \in 0..(Len(b) - Len(a)) : \A i \in 1..Len(a) : b[k + i] = a[i]

(***************************************************************************)
(* self.events: a dict from date to list of events, in insertion order.    *)
(***************************************************************************)
HasDay(ev, d) == \E i \in 1..Len(ev) : ev[i].k = d

DayIndex(ev, d) == CHOOSE i \in 1..Len(ev) : ev[i].k = d

\* self.events[d]
Day(ev, d) == ev[DayIndex(ev, d)].v

\* self.events[d] = v
SetDay(ev, d, v) ==
  IF HasDay(ev, d) THEN [ev EXCEPT ![DayIndex(ev, d)].v = v]
  ELSE Append(ev, [k |-> d, v |-> v])

RECURSIVE CountEvents(_)
CountEvents(ev) ==
  IF ev = <<>> THEN 0 ELSE Len(Head(ev).v) + CountEvents(Tail(ev))

RECURSIVE AllEvents(_)
AllEvents(ev) ==
  IF ev = <<>> THEN <<>> ELSE Head(ev).v \o AllEvents(Tail(ev))

RemoveAt(seq, i) == SubSeq(seq, 1, i - 1) \o SubSeq(seq, i + 1, Len(seq))

(***************************************************************************)
(* The backing file.                                                       *)
(***************************************************************************)
EmptyDict == <<>>

\* json.dump(self.events, f): the file holds the text of the whole map
save_calendar(ev) == [kind |-> "json", doc |-> ev]

\* json.load(f), {} on JSONDecodeError
load_calendar(f) == IF f.kind = "json" THEN f.doc ELSE EmptyDict

\* the file after ensure_calendar_file
ensure_calendar_file(f) ==
  IF f.kind = "absent" THEN save_calendar(EmptyDict) ELSE f

(***************************************************************************)
(* The store operations.  A store is [events, file, uuids]; a call gives   *)
(* [s: the store after the call, raised: whether it raised, bool / list /  *)
(* id: the value it returned].                                             *)
(***************************************************************************)
Store(ev, f, n) == [events |-> ev, file |-> f, uuids |-> n]

Saved(s) == [s EXCEPT !.file = save_calendar(s.events)]

Call(s, raised, b, l, i) ==
  [s |-> s, raised |-> raised, bool |-> b, list |-> l, id |-> i]

get_events_for_day(ev, date_str) ==
  IF HasDay(ev, date_str) THEN Day(ev, date_str) ELSE <<>>

\* a faulty add_event: the id is not a fresh one for the next call
add_event_SameId(s, date_str, start_time, end_time, title, description) ==
  LET ev0 == IF HasDay(s.events, date_str) THEN s.events
             ELSE SetDay(s.events, date_str, <<>>)
      event_id == UuidPool[s.uuids + 1]
      event == [id |-> event_id, title |-> title, start_time |-> start_time,
                end_time |-> end_time, description |-> description]
      ev1 == SetDay(ev0, date_str, Append(Day(ev0, date_str), event))
  IN Call(Saved([s EXCEPT !.events = ev1]), FALSE, TRUE, <<>>, event_id)

add_event(s, date_str, start_time, end_time, title, description) ==
  LET ev0 == IF HasDay(s.events, date_str) THEN s.events
             ELSE SetDay(s.events, date_str, <<>>)
      event_id == UuidPool[s.uuids + 1]
      event == [id |-> event_id, title |-> title, start_time |-> start_time,
                end_time |-> end_time, description |-> description]
      ev1 == SetDay(ev0, date_str, Append(Day(ev0, date_str), event))
  IN Call(Saved([s EXCEPT !.events = ev1, !.uuids = s.uuids + 1]),
          FALSE, TRUE, <<>>, event_id)

\* a faulty delete_event: only the first event with the id is removed
delete_event_First(s, date_str, event_id) ==
  IF HasDay(s.events, date_str)
     /\ \E i \in 1..Len(Day(s.events, date_str)) : Day(s.events, date_str)[i].id = event_id
  THEN LET old == Day(s.events, date_str)
           i == CHOOSE i \in 1..Len(old) :
                  old[i].id = event_id /\ \A j \in 1..(i - 1) : old[j].id # event_id
       IN Call(Saved([s EXCEPT !.events = SetDay(s.events, date_str, RemoveAt(old, i))]),
               FALSE, TRUE, <<>>, "")
  ELSE Call(s, FALSE, FALSE, <<>>, "")

delete_event(s, date_str, event_id) ==
  IF HasDay(s.events, date_str)
  THEN LET old == Day(s.events, date_str)
           Keep(e) == e.id # event_id
           new == SelectSeq(old, Keep)
           s1 == [s EXCEPT !.events = SetDay(s.events, date_str, new)]
       IN IF Len(new) < Len(old)
          THEN Call(Saved(s1), FALSE, TRUE, <<>>, "")
          ELSE Call(s1, FALSE, FALSE, <<>>, "")
  ELSE Call(s, FALSE, FALSE, <<>>, "")

\* e["title"].lower() can be evaluated: the key is there and holds a str
TitleIsStr(e) == "title" \in DOMAIN e /\ IsStr(e.title)

\* title.lower() in e["title"].lower()
TitleMatches(title, e) == Contains(Lower(title), Lower(e.title))

\* the loop of delete_events_by_title from the i-th day on: the comprehensions
\* of a day raise before that day is assigned, the days before it stay filtered
RECURSIVE DeleteByTitleFrom(_, _, _, _)
DeleteByTitleFrom(ev, i, title, deleted_events) ==
  IF i > Len(ev) THEN [events |-> ev, deleted |-> deleted_events, raised |-> FALSE]
  ELSE LET day == ev[i].v
       IN IF day # <<>> /\ (~IsStr(title) \/ \E j \in 1..Len(day) : ~TitleIsStr(day[j]))
          THEN [events |-> ev, deleted |-> deleted_events, raised |-> TRUE]
          ELSE LET Match(e) == TitleMatches(title, e)
                   NoMatch(e) == ~TitleMatches(title, e)
                   matching_events == SelectSeq(day, Match)
                   rest == SelectSeq(day, NoMatch)
               IN DeleteByTitleFrom([ev EXCEPT ![i].v = rest], i + 1, title,
                     IF Len(day) # Len(rest)
                     THEN deleted_events \o matching_events
                     ELSE deleted_events)

delete_events_by_title(s, title) ==
  LET r == DeleteByTitleFrom(s.events, 1, title, <<>>)
      s1 == [s EXCEPT !.events = r.events]
  IN IF r.raised THEN Call(s1, TRUE, FALSE, <<>>, "")
     ELSE IF r.deleted # <<>> THEN Call(Saved(s1), FALSE, FALSE, r.deleted, "")
     ELSE Call(s1, FALSE, FALSE, r.deleted, "")

\* the index of the first event of day whose id is event_id, 0 if there is none
FirstWithId(day, event_id) ==
  IF \E i \in 1..Len(day) : day[i].id = event_id
  THEN CHOOSE i \in 1..Len(day) :
         day[i].id = event_id /\ \A j \in 1..(i - 1) : day[j].id # event_id
  ELSE 0

\* a JSON value that is a dict is [dict |-> the dict], one that is a list is
\* [list |-> the list]
IsDict(v) == "dict" \in DOMAIN v

\* a faulty Merge: a key the event does not have is added to it
Merge_AddsKeys(event, fields) ==
  [key \in DOMAIN event \cup DOMAIN fields |->
     IF key \in DOMAIN fields THEN fields[key] ELSE event[key]]

\* for key, value in updated_fields.items(): if key in event: event[key] = value
Merge(event, fields) ==
  [key \in DOMAIN event |-> IF key \in DOMAIN fields THEN fields[key] ELSE event[key]]

update_event(s, date_str, event_id, updated_fields) ==
  IF HasDay(s.events, date_str) /\ FirstWithId(Day(s.events, date_str), event_id) # 0
  THEN LET day == Day(s.events, date_str)
           i == FirstWithId(day, event_id)
       IN IF ~IsDict(updated_fields)
          THEN Call(s, TRUE, FALSE, <<>>, "")
          ELSE Call(Saved([s EXCEPT !.events = SetDay(s.events, date_str,
                       [day EXCEPT ![i] = Merge(day[i], updated_fields.dict)])]),
                    FALSE, TRUE, <<>>, "")
  ELSE Call(s, FALSE, FALSE, <<>>, "")

\* a faulty move_event: new_date is created before the event is looked for
move_event_CreatesDay(s, old_date_str, event_id, new_date_str) ==
  LET ev0 == IF HasDay(s.events, new_date_str) THEN s.events
             ELSE SetDay(s.events, new_date_str, <<>>)
  IN IF HasDay(ev0, old_date_str)
        /\ FirstWithId(Day(ev0, old_date_str), event_id) # 0
     THEN LET day == Day(ev0, old_date_str)
              i == FirstWithId(day, event_id)
              ev1 == SetDay(ev0, old_date_str, RemoveAt(day, i))
              ev2 == SetDay(ev1, new_date_str, Append(Day(ev1, new_date_str), day[i]))
          IN Call(Saved([s EXCEPT !.events = ev2]), FALSE, TRUE, <<>>, "")
     ELSE Call([s EXCEPT !.events = ev0], FALSE, FALSE, <<>>, "")

\* a faulty move_event: the event is copied, old_date keeps it
move_event_Copy(s, old_date_str, event_id, new_date_str) ==
  IF HasDay(s.events, old_date_str)
     /\ FirstWithId(Day(s.events, old_date_str), event_id) # 0
  THEN LET day == Day(s.events, old_date_str)
           i == FirstWithId(day, event_id)
           ev2 == IF HasDay(s.events, new_date_str) THEN s.events
                  ELSE SetDay(s.events, new_date_str, <<>>)
           ev3 == SetDay(ev2, new_date_str, Append(Day(ev2, new_date_str), day[i]))
       IN Call(Saved([s EXCEPT !.events = ev3]), FALSE, TRUE, <<>>, "")
  ELSE Call(s, FALSE, FALSE, <<>>, "")

move_event(s, old_date_str, event_id, new_date_str) ==
  IF HasDay(s.events, old_date_str)
     /\ FirstWithId(Day(s.events, old_date_str), event_id) # 0
  THEN LET day == Day(s.events, old_date_str)
           i == FirstWithId(day, event_id)
           event_to_move == day[i]
           ev1 == SetDay(s.events, old_date_str, RemoveAt(day, i))
           ev2 == IF HasDay(ev1, new_date_str) THEN ev1
                  ELSE SetDay(ev1, new_date_str, <<>>)
           ev3 == SetDay(ev2, new_date_str,
                         Append(Day(ev2, new_date_str), event_to_move))
       IN Call(Saved([s EXCEPT !.events = ev3]), FALSE, TRUE, <<>>, "")
  ELSE Call(s, FALSE, FALSE, <<>>, "")

\* a faulty clear_day: every day of the store is emptied
clear_day_EveryDay(s, date_str) ==
  IF HasDay(s.events, date_str)
  THEN Call(Saved([s EXCEPT !.events = [i \in 1..Len(s.events) |->
                                         [k |-> s.events[i].k, v |-> <<>>]]]),
            FALSE, FALSE, Day(s.events, date_str), "")
  ELSE Call(s, FALSE, FALSE, <<>>, "")

clear_day(s, date_str) ==
  IF HasDay(s.events, date_str)
  THEN Call(Saved([s EXCEPT !.events = SetDay(s.events, date_str, <<>>)]),
            FALSE, FALSE, Day(s.events, date_str), "")
  ELSE Call(s, FALSE, FALSE, <<>>, "")

\* existing_events: the lower-cased titles of the day, each with the id of the
\* last event that carries it
ExistingHas(day, lt) == \E i \in 1..Len(day) : Lower(day[i].title) = lt

ExistingId(day, lt) ==
  LET i == CHOOSE i \in 1..Len(day) :
             Lower(day[i].title) = lt
             /\ \A j \in (i + 1)..Len(day) : Lower(day[j].title) # lt
  IN day[i].id

\* the loop of reorganize_day over new_schedule from the i-th entry on; n is the
\* number of uuids drawn so far
RECURSIVE AssignIds(_, _, _, _)
AssignIds(day, new_schedule, i, n) ==
  IF i > Len(new_schedule)
  THEN [schedule |-> new_schedule, uuids |-> n, raised |-> FALSE]
  ELSE LET event == new_schedule[i]
       IN IF "id" \in DOMAIN event
          THEN AssignIds(day, new_schedule, i + 1, n)
          ELSE IF ~TitleIsStr(event)
          THEN [schedule |-> new_schedule, uuids |-> n, raised |-> TRUE]
          ELSE IF ExistingHas(day, Lower(event.title))
          THEN AssignIds(day,
                 [new_schedule EXCEPT
                    ![i] = event @@ ("id" :> ExistingId(day, Lower(event.title)))],
                 i + 1, n)
          ELSE AssignIds(day,
                 [new_schedule EXCEPT ![i] = event @@ ("id" :> UuidPool[n + 1])],
                 i + 1, n + 1)

reorganize_day(s, date_str, new_schedule) ==
  LET ev0 == IF HasDay(s.events, date_str) THEN s.events
             ELSE SetDay(s.events, date_str, <<>>)
      day == Day(ev0, date_str)
  IN IF \E j \in 1..Len(day) : ~TitleIsStr(day[j])
     THEN Call([s EXCEPT !.events = ev0], TRUE, FALSE, <<>>, "")
     ELSE LET r == AssignIds(day, new_schedule, 1, s.uuids)
          IN IF r.raised
             THEN Call([s EXCEPT !.events = ev0, !.uuids = r.uuids],
                       TRUE, FALSE, <<>>, "")
             ELSE Call(Saved([s EXCEPT !.events = SetDay(ev0, date_str, r.schedule),
                                       !.uuids = r.uuids]),
                       FALSE, TRUE, <<>>, "")

(***************************************************************************)
(* The dispatcher: process_calendar_operations.                            *)
(***************************************************************************)
\* op.get(key): None when the key is missing
Get(o, key) == IF key \in DOMAIN o THEN o[key] ELSE None

\* op.get("fields", {})
GetFields(o) == IF "fields" \in DOMAIN o THEN o.fields ELSE [dict |-> <<>>]

\* op.get("schedule", [])
GetSchedule(o) == IF "schedule" \in DOMAIN o THEN o.schedule ELSE <<>>

\* bool(v) of a dict or a list
TruthyFields(v) == IF IsDict(v) THEN DOMAIN v.dict # {} ELSE v.list # <<>>

Sentinel == <<"No calendar operations performed.">>

\* an entry the dispatcher does not hand to the store
Skipped(s) == [called |-> FALSE, call |-> Call(s, FALSE, FALSE, <<>>, ""), line |-> <<>>]

\* a faulty Applied: the line is appended whether or not the call succeeded
Applied_Always(c, success, line) ==
  [called |-> TRUE, call |-> c, line |-> IF ~c.raised THEN line ELSE <<>>]

\* an entry handed to the store: the call, and the confirmation line it gets
\* when success holds
Applied(c, success, line) ==
  [called |-> TRUE, call |-> c, line |-> IF ~c.raised /\ success THEN line ELSE <<>>]

\* one iteration of the loop over operations, on store s
Dispatch(s, o) ==
  LET op_type == Get(o, "operation")
  IN CASE op_type = "add_event" ->
            LET date_str == Get(o, "date")
                start_time == Get(o, "start_time")
                end_time == Get(o, "end_time")
                title == Get(o, "title")
                description == IF "description" \in DOMAIN o THEN o.description ELSE ""
            IN IF Truthy(date_str) /\ Truthy(start_time) /\ Truthy(end_time) /\ Truthy(title)
               THEN Applied(add_event(s, date_str, start_time, end_time, title, description),
                            TRUE,
                            <<"Added event: ", title, " at ", start_time, "-", end_time,
                              " on ", date_str>>)
               ELSE Skipped(s)
       [] op_type = "delete_event" ->
            LET date_str == Get(o, "date")
                event_id == Get(o, "event_id")
            IN IF Truthy(date_str) /\ Truthy(event_id)
               THEN LET c == delete_event(s, date_str, event_id)
                    IN Applied(c, c.bool, <<"Deleted event with ID ", event_id>>)
               ELSE Skipped(s)
       [] op_type = "delete_events_by_title" ->
            LET title == Get(o, "title")
            IN IF Truthy(title)
               THEN LET c == delete_events_by_title(s, title)
                    IN Applied(c, c.list # <<>>,
                               <<"Deleted ", Len(c.list), " events with title containing '",
                                 title, "'">>)
               ELSE Skipped(s)
       [] op_type = "update_event" ->
            LET date_str == Get(o, "date")
                event_id == Get(o, "event_id")
                updated_fields == GetFields(o)
            IN IF Truthy(date_str) /\ Truthy(event_id) /\ TruthyFields(updated_fields)
               THEN LET c == update_event(s, date_str, event_id, updated_fields)
                    IN Applied(c, c.bool,
                               <<"Updated event ", event_id, ": ", updated_fields>>)
               ELSE Skipped(s)
       [] op_type = "move_event" ->
            LET old_date == Get(o, "old_date")
                new_date == Get(o, "new_date")
                event_id == Get(o, "event_id")
            IN IF Truthy(old_date) /\ Truthy(new_date) /\ Truthy(event_id)
               THEN LET c == move_event(s, old_date, event_id, new_date)
                    IN Applied(c, c.bool,
                               <<"Moved event ", event_id, " from ", old_date, " to ",
                                 new_date>>)
               ELSE Skipped(s)
       [] op_type = "clear_day" ->
            LET date_str == Get(o, "date")
            IN IF Truthy(date_str)
               THEN LET c == clear_day(s, date_str)
                    IN Applied(c, c.list # <<>>,
                               <<"Cleared ", Len(c.list), " events from ", date_str>>)
               ELSE Skipped(s)
       [] op_type = "reorganize_day" ->
            LET date_str == Get(o, "date")
                schedule == GetSchedule(o)
            IN IF Truthy(date_str) /\ schedule # <<>>
               THEN LET c == reorganize_day(s, date_str, schedule)
                    IN Applied(c, c.bool,
                               <<"Reorganized schedule for ", date_str, " with ",
                                 Len(schedule), " events">>)
               ELSE Skipped(s)
       [] OTHER -> Skipped(s)

\* "\n".join(result) if result else "No calendar operations performed.": the
\* returned text, as the sequence of its lines
Joined(confirmations) ==
  IF confirmations # <<>> THEN confirmations ELSE <<Sentinel>>

(***************************************************************************)
(* The entries a batch is drawn from.  n is the number of uuids drawn so   *)
(* far: an entry names an id the store has issued, or the made-up id "x1". *)
(***************************************************************************)
Dates == {"2025-03-14", "2025-03-15"}

IssuedIds(n) == {UuidPool[i] : i \in 1..n}

KnownIds(n) == IssuedIds(n) \cup {"x1"}

\* the dict o without the key k
Without(o, k) == [key \in DOMAIN o \ {k} |-> o[key]]

AddEntry(d, t) ==
  [operation |-> "add_event", date |-> d, start_time |-> "9am",
   end_time |-> "10am", title |-> t, description |-> ""]

AddOps ==
  {AddEntry(d, t) : d \in Dates, t \in {"Gym", "Run"}}
  \cup {[AddEntry("2025-03-14", "Gym") EXCEPT !.title = ""],
        [AddEntry("2025-03-14", "Gym") EXCEPT !.date = None],
        Without(AddEntry("2025-03-14", "Gym"), "start_time"),
        [AddEntry("2025-03-14", "Gym") EXCEPT !.end_time = ""]}

DeleteEntry(d, i) == [operation |-> "delete_event", date |-> d, event_id |-> i]

DeleteOps(n) ==
  {DeleteEntry(d, i) : d \in Dates, i \in KnownIds(n)}
  \cup {DeleteEntry("", "x1"), Without(DeleteEntry("2025-03-14", "x1"), "event_id")}

ByTitleEntry(t) == [operation |-> "delete_events_by_title", title |-> t]

ByTitleOps ==
  {ByTitleEntry(t) : t \in {"GY", Number, ""}}
  \cup {Without(ByTitleEntry("GY"), "title")}

UpdateEntry(d, i, f) ==
  [operation |-> "update_event", date |-> d, event_id |-> i, fields |-> f]

\* the values of "fields" for an update of the event i
FieldMaps(n, i) ==
  {[dict |-> [title |-> "Run", location |-> "Gym"]],
   [list |-> <<"title">>]}
  \cup {[dict |-> [id |-> j]] : j \in IssuedIds(n) \ {i}}

UpdateOps(n) ==
  UNION {{UpdateEntry(d, i, f) : d \in Dates, f \in FieldMaps(n, i)} : i \in IssuedIds(n)}
  \cup {UpdateEntry("2025-03-14", "x1", [dict |-> [title |-> "Run", location |-> "Gym"]]),
        UpdateEntry("2025-03-14", "x1", [dict |-> <<>>]),
        Without(UpdateEntry("2025-03-14", "x1", [dict |-> <<>>]), "fields"),
        UpdateEntry(None, "x1", [dict |-> [title |-> "Run"]]),
        UpdateEntry("2025-03-14", "", [dict |-> [title |-> "Run"]])}

MoveEntry(d, i, e) ==
  [operation |-> "move_event", old_date |-> d, event_id |-> i, new_date |-> e]

MoveOps(n) ==
  {MoveEntry(d, i, e) : d \in Dates, i \in IssuedIds(n), e \in Dates}
  \cup {MoveEntry("2025-03-14", "x1", "2025-03-15"),
        Without(MoveEntry("2025-03-14", "x1", "2025-03-15"), "old_date"),
        MoveEntry("2025-03-14", "x1", ""),
        MoveEntry("2025-03-14", None, "2025-03-15")}

ClearEntry(d) == [operation |-> "clear_day", date |-> d]

ClearOps == {ClearEntry(d) : d \in Dates \cup {""}} \cup {[operation |-> "clear_day"]}

ReorganizeEntry(d, sch) == [operation |-> "reorganize_day", date |-> d, schedule |-> sch]

\* an entry of a schedule with every field but the id
Slot(t) == [title |-> t, start_time |-> "9am", end_time |-> "10am", description |-> ""]

Schedules(n) ==
  {<<Slot("gym")>>, <<Slot("Gym"), Slot("gym")>>,
   <<Without(Slot("gym"), "title")>>,
   <<[id |-> "x1"]>>}
  \cup {<<Slot("Gym") @@ ("id" :> j)>> : j \in IssuedIds(n)}

ReorganizeOps(n) ==
  {ReorganizeEntry(d, sch) : d \in Dates, sch \in Schedules(n)}
  \cup {ReorganizeEntry("2025-03-14", <<>>),
        Without(ReorganizeEntry("2025-03-14", <<>>), "schedule"),
        Without(ReorganizeEntry("2025-03-14", <<Slot("gym")>>), "date")}

OtherOps == {[operation |-> "rename_event", date |-> "2025-03-14"],
             [date |-> "2025-03-14"]}

Operations(n) ==
  AddOps \cup DeleteOps(n) \cup ByTitleOps \cup UpdateOps(n) \cup MoveOps(n)
  \cup ClearOps \cup ReorganizeOps(n) \cup OtherOps

(***************************************************************************)
(* The state machine.                                                      *)
(*   pc = "idle":   no batch is being processed                            *)
(*   pc = "batch":  at the head of the loop of process_calendar_operations *)
(*   pc = "done":   at the end of the loop body for the entry op           *)
(*   pc = "raised": an exception left process_calendar_operations; no      *)
(*                  caller catches it, the process ends                    *)
(* op is the loop variable, ret what the store call for op gave, result    *)
(* the list of confirmation lines, returned the dispatcher's last return   *)
(* value.  before is a history variable: the store and the result as they  *)
(* were when the loop body for op began.  loadFailed tells whether         *)
(* load_calendar, when the store was built, found a file it could not      *)
(* parse.                                                                  *)
(***************************************************************************)
NoOp == <<>>

NoRet == [called |-> FALSE, raised |-> FALSE, bool |-> FALSE, list |-> <<>>, id |-> ""]

Before(ev, f, n, confirmations) ==
  [events |-> ev, file |-> f, uuids |-> n, result |-> confirmations]

NoBefore == Before(<<>>, [kind |-> "absent"], 0, <<>>)

\* a JSON value, as json.loads gives it: a str, a number, None, a list or a dict
JStr(s) == [t |-> "str", v |-> s]
JNum(n) == [t |-> "num", v |-> n]
JNull == [t |-> "null", v |-> 0]
JArr(items) == [t |-> "arr", v |-> items]
JObj(pairs) == [t |-> "obj", v |-> pairs]

\* extract_calendar_operations is not running
NoExtraction ==
  /\ segments = <<>>
  /\ response = <<>>
  /\ json_blocks = <<>>
  /\ block = 0
  /\ operations = JArr(<<>>)

\* convert_to_24h is not running
NoConversion ==
  /\ parts = [kind |-> "none"]
  /\ time_str = <<>>
  /\ minutes = 0

\* main is not running
NoMainLoop ==
  /\ history = <<>>
  /\ history_file = [kind |-> "absent"]
  /\ lines = <<>>
  /\ text_input = FALSE
  /\ submitted = <<>>

Init ==
  /\ \E f \in {[kind |-> "absent"], [kind |-> "malformed"]} :
       /\ file = ensure_calendar_file(f)
       /\ events = load_calendar(ensure_calendar_file(f))
       /\ events_type = "dict"
       /\ loadFailed = (f.kind = "malformed")
  /\ uuids = 0
  /\ pc = "idle"
  /\ op = NoOp
  /\ ret = NoRet
  /\ before = NoBefore
  /\ result = <<>>
  /\ returned = <<>>
  /\ NoExtraction
  /\ NoConversion
  /\ NoMainLoop

\* process_calendar_operations is called: result = []
BeginBatch ==
  /\ pc = "idle"
  /\ pc' = "batch"
  /\ result' = <<>>
  /\ returned' = <<>>
  /\ UNCHANGED <<events, file, loadFailed, uuids, op, ret, before>>
  /\ UNCHANGED <<events_type, extractorVars, timeVars, mainVars>>

\* one iteration of the loop, for the entry o
ProcessEntry(o) ==
  /\ pc = "batch"
  /\ Len(result) < MaxBatch
  /\ \E d \in {Dispatch(Store(events, file, uuids), o)} :
        /\ d.call.s.uuids <= MaxUuids
        /\ CountEvents(d.call.s.events) <= MaxEvents
        /\ events' = d.call.s.events
        /\ file' = d.call.s.file
        /\ uuids' = d.call.s.uuids
        /\ op' = o
        /\ ret' = [called |-> d.called, raised |-> d.call.raised, bool |-> d.call.bool,
                   list |-> d.call.list, id |-> d.call.id]
        /\ before' = Before(events, file, uuids, result)
        /\ pc' = IF d.call.raised THEN "raised" ELSE "done"
        /\ result' = IF d.line # <<>> THEN Append(result, d.line) ELSE result
  /\ UNCHANGED <<loadFailed, returned>>
  /\ UNCHANGED <<events_type, extractorVars, timeVars, mainVars>>

\* back to the head of the loop
Continue ==
  /\ pc = "done"
  /\ pc' = "batch"
  /\ op' = NoOp
  /\ ret' = NoRet
  /\ before' = NoBefore
  /\ UNCHANGED <<events, file, loadFailed, uuids, result, returned>>
  /\ UNCHANGED <<events_type, extractorVars, timeVars, mainVars>>

\* the loop is over: return
EndBatch ==
  /\ pc = "batch"
  /\ returned' = Joined(result)
  /\ pc' = "idle"
  /\ UNCHANGED <<events, file, loadFailed, uuids, op, ret, before, result>>
  /\ UNCHANGED <<events_type, extractorVars, timeVars, mainVars>>

\* the process is started again, after it ended or after an exception ended it:
\* CalendarManager.__init__ on the file as it is
Restart ==
  /\ pc \in {"idle", "raised"}
  /\ file' = ensure_calendar_file(file)
  /\ events' = load_calendar(ensure_calendar_file(file))
  /\ events_type' = "dict"
  /\ loadFailed' = (file.kind = "malformed")
  /\ pc' = "idle"
  /\ op' = NoOp
  /\ ret' = NoRet
  /\ before' = NoBefore
  /\ result' = <<>>
  /\ returned' = <<>>
  /\ UNCHANGED uuids
  /\ UNCHANGED <<extractorVars, timeVars, mainVars>>

Next ==
  \/ BeginBatch
  \/ \E o \in Operations(uuids) : ProcessEntry(o)
  \/ Continue
  \/ EndBatch
  \/ Restart

Spec == Init /\ [][Next]_vars

(***************************************************************************)
(* Properties.  They are stated on the states at the end of a loop body    *)
(* (pc = "done"), or where the body raised (pc = "raised"): op is the      *)
(* entry, ret the store call made for it, before the store as the call     *)
(* found it and events, file, uuids the store as the call left it.         *)
(***************************************************************************)
Kind == Get(op, "operation")

\* the store operation k was called for op (and returned or raised)
AtCall(k) == pc \in {"done", "raised"} /\ Kind = k /\ ret.called

\* the store operation k was called for op and returned
Returned(k) == pc = "done" /\ Kind = k /\ ret.called

Ids(seq) == {seq[i].id : i \in 1..Len(seq)}

\* a field of an entry that is missing or empty
Empty(o, key) == key \notin DOMAIN o \/ o[key] = None \/ o[key] = ""

\* C1: the id add_event returns differs from every id drawn before and from
\* the id of every event then in the store, and get_events_for_day(date) ends
\* with the event that carries this id and the given fields.
C1_AddEventFreshAndRetrievable ==
  Returned("add_event") =>
    /\ ret.id \notin IssuedIds(before.uuids)
    /\ ret.id \notin Ids(AllEvents(before.events))
    /\ LET day == get_events_for_day(events, op.date)
       IN /\ day # <<>>
          /\ day[Len(day)] = [id |-> ret.id, title |-> op.title,
                              start_time |-> op.start_time,
                              end_time |-> op.end_time,
                              description |-> op.description]

\* an add_event on a store that holds events and has issued ids before
C1_Witness ==
  /\ Returned("add_event")
  /\ before.uuids > 0
  /\ AllEvents(before.events) # <<>>

\* C2: update_event never changes the id of the event it updates.
C2_UpdateKeepsId ==
  (Returned("update_event") /\ ret.bool) =>
    LET i == FirstWithId(Day(before.events, op.date), op.event_id)
    IN Day(events, op.date)[i].id = Day(before.events, op.date)[i].id

\* C3: no two events of the store, in the same day or in different days,
\* have the same id.
C3_NoTwoEventsShareId ==
  LET all == AllEvents(events)
  IN \A i, j \in 1..Len(all) : i # j => all[i].id # all[j].id

\* C4: from a store loaded from an absent or well-formed file on, the file
\* holds the in-memory map, so that a reload yields the same store: under every
\* date the file and the memory hold the same sequence of events.  (A day that
\* is absent on one side and empty on the other is not held against it.)
C4_FileHoldsMemory ==
  ~loadFailed =>
    \A d \in Dates :
      get_events_for_day(load_calendar(file), d) = get_events_for_day(events, d)

\* C5: process_calendar_operations runs to the end of every batch: no entry
\* makes it raise.
C5_BatchRunsToEnd == pc # "raised"

\* the entry o passes the dispatcher's validation: a recognized kind with its
\* required fields present and not empty
Valid(o) ==
  LET k == Get(o, "operation")
  IN CASE k = "add_event" ->
            ~Empty(o, "date") /\ ~Empty(o, "start_time") /\ ~Empty(o, "end_time")
            /\ ~Empty(o, "title")
       [] k = "delete_event" -> ~Empty(o, "date") /\ ~Empty(o, "event_id")
       [] k = "delete_events_by_title" -> ~Empty(o, "title")
       [] k = "update_event" ->
            ~Empty(o, "date") /\ ~Empty(o, "event_id") /\ "fields" \in DOMAIN o
            /\ o.fields \notin {[dict |-> <<>>], [list |-> <<>>]}
       [] k = "move_event" ->
            ~Empty(o, "old_date") /\ ~Empty(o, "new_date") /\ ~Empty(o, "event_id")
       [] k = "clear_day" -> ~Empty(o, "date")
       [] k = "reorganize_day" ->
            ~Empty(o, "date") /\ "schedule" \in DOMAIN o /\ o.schedule # <<>>
       [] OTHER -> FALSE

\* the store operation called for a valid entry o reported success
Succeeded(o, r) ==
  CASE o.operation = "add_event" -> TRUE
    [] o.operation \in {"delete_events_by_title", "clear_day"} -> r.list # <<>>
    [] OTHER -> r.bool

\* the confirmation line of the entry o
LineOf(o, r) ==
  CASE o.operation = "add_event" ->
         <<"Added event: ", o.title, " at ", o.start_time, "-", o.end_time, " on ",
           o.date>>
    [] o.operation = "delete_event" -> <<"Deleted event with ID ", o.event_id>>
    [] o.operation = "delete_events_by_title" ->
         <<"Deleted ", Len(r.list), " events with title containing '", o.title, "'">>
    [] o.operation = "update_event" -> <<"Updated event ", o.event_id, ": ", o.fields>>
    [] o.operation = "move_event" ->
         <<"Moved event ", o.event_id, " from ", o.old_date, " to ", o.new_date>>
    [] o.operation = "clear_day" -> <<"Cleared ", Len(r.list), " events from ", o.date>>
    [] o.operation = "reorganize_day" ->
         <<"Reorganized schedule for ", o.date, " with ", Len(o.schedule), " events">>

\* C6: each entry adds its confirmation line at the end of the result exactly
\* when it passed validation and its store operation reported success, and
\* adds nothing otherwise; the value returned is the lines in that order, or
\* the sentinel exactly when there is no line.
C6_OneLinePerSuccessInOrder ==
  /\ pc = "done" =>
       result = IF Valid(op) /\ Succeeded(op, ret)
                THEN Append(before.result, LineOf(op, ret))
                ELSE before.result
  /\ (pc = "idle" /\ returned # <<>>) =>
       /\ result # <<>> => returned = result
       /\ result = <<>> => returned = << <<"No calendar operations performed.">> >>

\* a second line is added after the first
C6_Witness ==
  /\ pc = "done"
  /\ Len(before.result) = 1
  /\ Len(result) = 2

\* C7: an entry of an unrecognized kind, or with a required field missing or
\* empty, leaves the in-memory store and the file unchanged and adds no
\* confirmation line.
C7_InvalidEntryChangesNothing ==
  (pc \in {"done", "raised"} /\ ~Valid(op)) =>
    /\ pc = "done"
    /\ ~ret.called
    /\ events = before.events
    /\ file = before.file
    /\ result = before.result

\* an invalid entry met a store that holds events, in a batch that has a line
C7_Witness ==
  /\ pc = "done"
  /\ ~Valid(op)
  /\ AllEvents(before.events) # <<>>
  /\ before.result # <<>>

\* the day date holds an event with the id event_id
Holds(ev, date, event_id) ==
  HasDay(ev, date) /\ event_id \in Ids(Day(ev, date))

\* C8: delete_event, update_event and move_event return false and leave the
\* in-memory map and the file unchanged when the named day is absent or holds
\* no event with the given id; move_event then does not create new_date.
C8_NotFoundChangesNothing ==
  /\ (AtCall("delete_event") /\ ~Holds(before.events, op.date, op.event_id)) =>
       pc = "done" /\ ~ret.bool /\ events = before.events /\ file = before.file
  /\ (AtCall("update_event") /\ ~Holds(before.events, op.date, op.event_id)) =>
       pc = "done" /\ ~ret.bool /\ events = before.events /\ file = before.file
  /\ (AtCall("move_event") /\ ~Holds(before.events, op.old_date, op.event_id)) =>
       /\ pc = "done" /\ ~ret.bool /\ events = before.events /\ file = before.file
       /\ ~HasDay(before.events, op.new_date) => ~HasDay(events, op.new_date)

\* a move_event whose event is stored under another day, towards a day that
\* does not exist
C8_Witness ==
  /\ AtCall("move_event")
  /\ ~Holds(before.events, op.old_date, op.event_id)
  /\ \E d \in Dates : Holds(before.events, d, op.event_id)
  /\ ~HasDay(before.events, op.new_date)

\* C9: delete_event returns true exactly when the day holds an event with the
\* id, and a second call with the same (date, id) returns false and changes
\* nothing.
C9_DeleteEventIdempotent ==
  Returned("delete_event") =>
    /\ ret.bool = Holds(before.events, op.date, op.event_id)
    /\ LET second == delete_event(Store(events, file, uuids), op.date, op.event_id)
       IN /\ ~second.raised
          /\ ~second.bool
          /\ second.s.events = events
          /\ second.s.file = file

\* a delete_event that returned true on a day holding the id twice
C9_Witness ==
  /\ Returned("delete_event")
  /\ ret.bool
  /\ Len(Day(before.events, op.date)) - Len(Day(events, op.date)) = 2

\* C10 as stated: after a move_event that returned true, new_date ends with
\* the event that was in old_date, old_date is its former sequence without
\* that event, and the store holds as many events as before.
C10_MoveRelocates ==
  (Returned("move_event") /\ ret.bool) =>
    LET day == Day(before.events, op.old_date)
        i == FirstWithId(day, op.event_id)
        new == get_events_for_day(events, op.new_date)
    IN /\ new # <<>>
       /\ new[Len(new)] = day[i]
       /\ Day(events, op.old_date) = RemoveAt(day, i)
       /\ CountEvents(events) = CountEvents(before.events)

\* C10 amended: as C10, but when new_date is old_date the event is at the end
\* of that one sequence, after its former neighbours.
C10_MoveRelocatesAmended ==
  (Returned("move_event") /\ ret.bool) =>
    LET day == Day(before.events, op.old_date)
        i == FirstWithId(day, op.event_id)
        new == get_events_for_day(events, op.new_date)
    IN /\ new # <<>>
       /\ new[Len(new)] = day[i]
       /\ Day(events, op.old_date) =
            IF op.new_date = op.old_date THEN Append(RemoveAt(day, i), day[i])
            ELSE RemoveAt(day, i)
       /\ op.new_date # op.old_date =>
            new = Append(get_events_for_day(before.events, op.new_date), day[i])
       /\ CountEvents(events) = CountEvents(before.events)

\* a move_event between two days that both hold events, and one within a day
C10_Witness ==
  /\ Returned("move_event")
  /\ ret.bool
  /\ op.new_date # op.old_date
  /\ get_events_for_day(before.events, op.new_date) # <<>>

\* the titles of e and f are strs that are equal when case is ignored
SameTitle(e, f) == TitleIsStr(e) /\ TitleIsStr(f) /\ Lower(e.title) = Lower(f.title)

\* C11: after reorganize_day(date, new_schedule) the day is new_schedule in
\* the given order; an entry that came without an id and whose title equals,
\* ignoring case, the title of an event the day held before carries the id of
\* such an event; every other entry that came without an id carries an id
\* drawn by this call, which no other event of the store holds.
C11_ReorganizeKeepsIdentity ==
  AtCall("reorganize_day") =>
    /\ pc = "done"
    /\ LET old == get_events_for_day(before.events, op.date)
           day == get_events_for_day(events, op.date)
           all == AllEvents(events)
       IN /\ Len(day) = Len(op.schedule)
          /\ \A i \in 1..Len(op.schedule) :
               LET entry == op.schedule[i]
               IN /\ \A key \in DOMAIN entry : day[i][key] = entry[key]
                  /\ "id" \notin DOMAIN entry =>
                       IF \E j \in 1..Len(old) : SameTitle(old[j], entry)
                       THEN \E j \in 1..Len(old) :
                              SameTitle(old[j], entry) /\ day[i].id = old[j].id
                       ELSE /\ day[i].id \in IssuedIds(uuids) \ IssuedIds(before.uuids)
                            /\ Cardinality({k \in 1..Len(all) : all[k].id = day[i].id}) = 1

\* C12: update_event, given a dict of fields and a day that holds the id,
\* returns true; the first event with the id keeps its set of attributes, each
\* attribute named in fields has the given value and each other attribute its
\* former value; the other events of the day are as they were.
C12_UpdateMergesKnownFields ==
  (AtCall("update_event") /\ IsDict(op.fields)
   /\ Holds(before.events, op.date, op.event_id)) =>
    /\ pc = "done"
    /\ ret.bool
    /\ LET old == Day(before.events, op.date)
           day == Day(events, op.date)
           i == FirstWithId(old, op.event_id)
       IN /\ Len(day) = Len(old)
          /\ \A j \in 1..Len(old) : j # i => day[j] = old[j]
          /\ DOMAIN day[i] = DOMAIN old[i]
          /\ \A key \in DOMAIN old[i] :
               day[i][key] = IF key \in DOMAIN op.fields.dict
                             THEN op.fields.dict[key] ELSE old[i][key]

\* an update that names an attribute the event has and one it has not
C12_Witness ==
  /\ Returned("update_event")
  /\ ret.bool
  /\ IsDict(op.fields)
  /\ "title" \in DOMAIN op.fields.dict
  /\ "location" \in DOMAIN op.fields.dict
  /\ LET i == FirstWithId(Day(before.events, op.date), op.event_id)
     IN /\ TitleIsStr(Day(before.events, op.date)[i])
        /\ Day(events, op.date)[i].title # Day(before.events, op.date)[i].title

\* title.lower() is in the lower-cased title of e, where both are strs
Matching(title, e) == TitleIsStr(e) /\ TitleMatches(title, e)

RECURSIVE Removed(_, _)
\* the events of ev that match title, day after day
Removed(ev, title) ==
  IF ev = <<>> THEN <<>>
  ELSE LET Match(e) == Matching(title, e)
       IN SelectSeq(Head(ev).v, Match) \o Removed(Tail(ev), title)

\* C13: after delete_events_by_title(substring), on any store the program can
\* reach, no event has a title that contains the substring ignoring case, the
\* list returned is the events removed, and every day holds the events that
\* did not match, in their former order.
C13_DeleteByTitleRemovesAllMatches ==
  (AtCall("delete_events_by_title") /\ IsStr(op.title)) =>
    /\ pc = "done"
    /\ \A k \in 1..Len(AllEvents(events)) : ~Matching(op.title, AllEvents(events)[k])
    /\ ret.list = Removed(before.events, op.title)
    /\ Len(events) = Len(before.events)
    /\ \A d \in 1..Len(before.events) :
         LET NoMatch(e) == ~Matching(op.title, e)
         IN /\ events[d].k = before.events[d].k
            /\ events[d].v = SelectSeq(before.events[d].v, NoMatch)

(***************************************************************************)
(* The command extractor: extract_calendar_operations.  A text is the      *)
(* sequence of its lexical tokens: the fence of three backquotes, the tag   *)
(* json, white space, the punctuation of JSON, quoted strings, the number  *)
(* 1, null and plain words.  The two regular expressions and json.loads    *)
(* work on the tokens as they do on the characters.                        *)
(***************************************************************************)
MaxSegments == 2

\* the token of three backquotes
Fence == "<fence>"

Space == " "

Key == "\"calendar_operations\""

KeySingle == "'calendar_operations'"

\* the tokens that are a JSON string
DoubleQuoted == {Key, "\"operation\"", "\"clear_day\"", "\"add_event\"", "\"note\""}

\* the str a JSON string token denotes
StringOf(t) ==
  CASE t = Key -> "calendar_operations"
    [] t = "\"operation\"" -> "operation"
    [] t = "\"clear_day\"" -> "clear_day"
    [] t = "\"add_event\"" -> "add_event"
    [] t = "\"note\"" -> "note"

\* t.replace("'", '"')
Requote(t) ==
  CASE t = KeySingle -> Key
    [] t = "'operation'" -> "\"operation\""
    [] t = "'clear_day'" -> "\"clear_day\""
    [] OTHER -> t

\* json_block.replace("'", '"')
Cleaned(toks) == [i \in 1..Len(toks) |-> Requote(toks[i])]

\* the token at i, "" past the end of the text
At(toks, i) == IF i \in 1..Len(toks) THEN toks[i] ELSE ""

\* \s* from i on: the index of the first token at or after i that is not
\* white space
SkipWs(toks, i) ==
  IF \E j \in i..Len(toks) : toks[j] # Space
  THEN CHOOSE j \in i..Len(toks) :
         toks[j] # Space /\ \A k \in i..(j - 1) : toks[k] = Space
  ELSE Len(toks) + 1

\* the least element of a non-empty set of indices
Least(S) == CHOOSE i \in S : \A j \in S : i <= j

ParseFail == [ok |-> FALSE, val |-> JNull, next |-> 0]

Parsed(v, n) == [ok |-> TRUE, val |-> v, next |-> n]

\* the JSON decoder on the tokens from i0 on: the value read, and the index
\* after it
RECURSIVE ParseValue(_, _), ParseMembers(_, _, _), ParseElements(_, _, _)
ParseValue(toks, i0) ==
  LET i == SkipWs(toks, i0)
      t == At(toks, i)
      j == SkipWs(toks, i + 1)
  IN CASE t = "{" -> IF At(toks, j) = "}" THEN Parsed(JObj(<<>>), j + 1)
                     ELSE ParseMembers(toks, i + 1, <<>>)
       [] t = "[" -> IF At(toks, j) = "]" THEN Parsed(JArr(<<>>), j + 1)
                     ELSE ParseElements(toks, i + 1, <<>>)
       [] t \in DoubleQuoted -> Parsed(JStr(StringOf(t)), i + 1)
       [] t = "1" -> Parsed(JNum(1), i + 1)
       [] t = "null" -> Parsed(JNull, i + 1)
       [] OTHER -> ParseFail

\* the members of an object, after "{" or ","
ParseMembers(toks, i0, acc) ==
  LET i == SkipWs(toks, i0)
      c == SkipWs(toks, i + 1)
  IN IF At(toks, i) \notin DoubleQuoted \/ At(toks, c) # ":" THEN ParseFail
     ELSE LET r == ParseValue(toks, c + 1)
              n == SkipWs(toks, r.next)
              pairs == Append(acc, [k |-> StringOf(toks[i]), v |-> r.val])
          IN IF ~r.ok THEN ParseFail
             ELSE IF At(toks, n) = "," THEN ParseMembers(toks, n + 1, pairs)
             ELSE IF At(toks, n) = "}" THEN Parsed(JObj(pairs), n + 1)
             ELSE ParseFail

\* the elements of an array, after "[" or ","
ParseElements(toks, i0, acc) ==
  LET r == ParseValue(toks, i0)
      n == SkipWs(toks, r.next)
      items == Append(acc, r.val)
  IN IF ~r.ok THEN ParseFail
     ELSE IF At(toks, n) = "," THEN ParseElements(toks, n + 1, items)
     ELSE IF At(toks, n) = "]" THEN Parsed(JArr(items), n + 1)
     ELSE ParseFail

\* json.loads(toks): one value and nothing but white space around it, or
\* JSONDecodeError (ok is false)
json_loads(toks) ==
  LET r == ParseValue(toks, 1)
  IN IF r.ok /\ SkipWs(toks, r.next) > Len(toks)
     THEN [ok |-> TRUE, data |-> r.val]
     ELSE [ok |-> FALSE, data |-> JNull]

\* "calendar_operations" in data, for the dict a text that begins with "{"
\* parses into
HasKey(data) ==
  data.t = "obj" /\ \E i \in 1..Len(data.v) : data.v[i].k = "calendar_operations"

\* data["calendar_operations"]
ValueOfKey(data) ==
  LET i == CHOOSE i \in 1..Len(data.v) :
             data.v[i].k = "calendar_operations"
             /\ \A j \in (i + 1)..Len(data.v) : data.v[j].k # "calendar_operations"
  IN data.v[i].v

\* a match of FENCE(?:json)?\s*(\{[\s\S]*?\})\s*FENCE that begins at p: the
\* group is toks[from..to], the match ends at the closing fence, end
FencedMatch(toks, p) ==
  LET q == IF At(toks, p + 1) = "json" THEN p + 2 ELSE p + 1
      b == SkipWs(toks, q)
      Ends == {e \in (b + 1)..Len(toks) :
                 toks[e] = "}" /\ At(toks, SkipWs(toks, e + 1)) = Fence}
  IN IF At(toks, p) = Fence /\ At(toks, b) = "{" /\ Ends # {}
     THEN [ok |-> TRUE, from |-> b, to |-> Least(Ends),
           end |-> SkipWs(toks, Least(Ends) + 1)]
     ELSE [ok |-> FALSE, from |-> 0, to |-> 0, end |-> 0]

\* a match of \{[\s\S]*?"calendar_operations"\s*:\s*\[[\s\S]*?\]\s*\} that
\* begins at p: the match is toks[from..to]
UnfencedMatch(toks, p) ==
  LET Closes(a) == {r \in (a + 1)..Len(toks) :
                      toks[r] = "]" /\ At(toks, SkipWs(toks, r + 1)) = "}"}
      Bracket(k) == SkipWs(toks, SkipWs(toks, k + 1) + 1)
      Keys == {k \in (p + 1)..Len(toks) :
                 /\ toks[k] = Key
                 /\ At(toks, SkipWs(toks, k + 1)) = ":"
                 /\ At(toks, Bracket(k)) = "["
                 /\ Closes(Bracket(k)) # {}}
  IN IF At(toks, p) = "{" /\ Keys # {}
     THEN LET r == Least(Closes(Bracket(Least(Keys))))
          IN [ok |-> TRUE, from |-> p, to |-> SkipWs(toks, r + 1),
              end |-> SkipWs(toks, r + 1)]
     ELSE [ok |-> FALSE, from |-> 0, to |-> 0, end |-> 0]

\* re.findall with the fenced pattern, scanning from p on
RECURSIVE FindFenced(_, _)
FindFenced(toks, p) ==
  IF p > Len(toks) THEN <<>>
  ELSE LET m == FencedMatch(toks, p)
       IN IF m.ok THEN <<SubSeq(toks, m.from, m.to)>> \o FindFenced(toks, m.end + 1)
          ELSE FindFenced(toks, p + 1)

\* re.findall with the unfenced pattern, scanning from p on
RECURSIVE FindUnfenced(_, _)
FindUnfenced(toks, p) ==
  IF p > Len(toks) THEN <<>>
  ELSE LET m == UnfencedMatch(toks, p)
       IN IF m.ok THEN <<SubSeq(toks, m.from, m.to)>> \o FindUnfenced(toks, m.end + 1)
          ELSE FindUnfenced(toks, p + 1)

\* the body of the loop over json_blocks for one block: whether the loop
\* breaks, and the value of operations then
TryBlock(json_block) ==
  LET strict == json_loads(json_block)
      cleaned == json_loads(Cleaned(json_block))
  IN IF strict.ok
     THEN IF HasKey(strict.data)
          THEN [break |-> TRUE, operations |-> ValueOfKey(strict.data)]
          ELSE [break |-> FALSE, operations |-> JNull]
     ELSE IF cleaned.ok /\ HasKey(cleaned.data)
          THEN [break |-> TRUE, operations |-> ValueOfKey(cleaned.data)]
          ELSE [break |-> FALSE, operations |-> JNull]

\* bool(v) of a JSON value
TruthyValue(v) ==
  CASE v.t = "null" -> FALSE
    [] v.t = "num" -> v.v # 0
    [] v.t = "str" -> v.v # ""
    [] OTHER -> v.v # <<>>

(***************************************************************************)
(* The responses: up to MaxSegments segments, each a fenced block, with or *)
(* without the tag json, a brace region that is not fenced, or a word,     *)
(* with white space between them.                                          *)
(***************************************************************************)
\* {"operation": name}
OpObject(name) == <<"{", "\"operation\"", ":", Space, name, "}">>

\* {"calendar_operations": value}
KeyObject(value) == <<"{", Key, ":", Space>> \o value \o <<"}">>

WithClearDay == KeyObject(<<"[">> \o OpObject("\"clear_day\"") \o <<"]">>)

WithAddEvent == KeyObject(<<"[">> \o OpObject("\"add_event\"") \o <<"]">>)

SingleQuotedObject ==
  <<"{", KeySingle, ":", Space, "[", "{", "'operation'", ":", Space, "'clear_day'",
    "}", "]", "}">>

NoKeyObject == <<"{", "\"note\"", ":", Space, "1", "}">>

NotJson == <<"{", "oops", "}">>

Truncated == <<"{", Key, ":", Space, "[">>

StringValued == KeyObject(<<"\"clear_day\"">>)

NullValued == KeyObject(<<"null">>)

ObjectValued == KeyObject(OpObject("\"clear_day\""))

FencedContents ==
  {WithClearDay, WithAddEvent, SingleQuotedObject, NoKeyObject, NotJson, Truncated,
   StringValued, NullValued, ObjectValued}

BareContents == {WithClearDay, SingleQuotedObject, NoKeyObject}

Segments ==
  {[kind |-> "fenced", tag |-> tg, content |-> c] : tg \in BOOLEAN, c \in FencedContents}
  \cup {[kind |-> "bare", tag |-> FALSE, content |-> c] : c \in BareContents}
  \cup {[kind |-> "word", tag |-> FALSE, content |-> <<"see">>]}

Responses == UNION {[1..n -> Segments] : n \in 0..MaxSegments}

\* the tokens of one segment
RenderSegment(g) ==
  IF g.kind = "fenced"
  THEN <<Fence>> \o (IF g.tag THEN <<"json">> ELSE <<>>) \o <<Space>> \o g.content
       \o <<Space, Fence>>
  ELSE g.content

\* the tokens of a response
RECURSIVE Render(_)
Render(segs) ==
  IF segs = <<>> THEN <<>>
  ELSE IF Len(segs) = 1 THEN RenderSegment(segs[1])
  ELSE RenderSegment(segs[1]) \o <<Space>> \o Render(Tail(segs))

(***************************************************************************)
(* The extractor as a state machine.                                       *)
(*   pc = "extract":    extract_calendar_operations is entered             *)
(*   pc = "blocks":     at the head of the loop over json_blocks, block is *)
(*                      the index of the next one                          *)
(*   pc = "extracted":  it returned operations to query_ollama             *)
(*   pc = "dispatched": query_ollama handed operations to                  *)
(*                      process_calendar_operations                        *)
(*   pc = "answered":   query_ollama returned without dispatching          *)
(***************************************************************************)
StoreAtRest ==
  /\ events = EmptyDict
  /\ events_type = "dict"
  /\ file = save_calendar(EmptyDict)
  /\ loadFailed = FALSE
  /\ uuids = 0
  /\ op = NoOp
  /\ ret = NoRet
  /\ before = NoBefore
  /\ result = <<>>
  /\ returned = <<>>

InitExtract ==
  /\ pc = "extract"
  /\ segments \in Responses
  /\ response = Render(segments)
  /\ json_blocks = <<>>
  /\ block = 0
  /\ operations = JArr(<<>>)
  /\ StoreAtRest
  /\ NoConversion
  /\ NoMainLoop

\* operations = []; the two re.findall
FindBlocks ==
  /\ pc = "extract"
  /\ json_blocks' = IF FindFenced(response, 1) # <<>> THEN FindFenced(response, 1)
                    ELSE FindUnfenced(response, 1)
  /\ block' = 1
  /\ operations' = JArr(<<>>)
  /\ pc' = "blocks"
  /\ UNCHANGED <<segments, response, dispatcherVars, timeVars, mainVars>>

\* one iteration of the loop over json_blocks
NextBlock ==
  /\ pc = "blocks"
  /\ block <= Len(json_blocks)
  /\ \E r \in {TryBlock(json_blocks[block])} :
       IF r.break
       THEN /\ operations' = r.operations
            /\ pc' = "extracted"
            /\ UNCHANGED block
       ELSE /\ block' = block + 1
            /\ UNCHANGED <<operations, pc>>
  /\ UNCHANGED <<segments, response, json_blocks, dispatcherVars, timeVars, mainVars>>

\* the loop ran out of blocks: return operations
NoMoreBlocks ==
  /\ pc = "blocks"
  /\ block > Len(json_blocks)
  /\ pc' = "extracted"
  /\ UNCHANGED <<dispatcherVars, extractorVars, timeVars, mainVars>>

\* query_ollama: if operations: process_calendar_operations(operations, ...)
HandOver ==
  /\ pc = "extracted"
  /\ pc' = IF TruthyValue(operations) THEN "dispatched" ELSE "answered"
  /\ UNCHANGED <<dispatcherVars, extractorVars, timeVars, mainVars>>

NextExtract == FindBlocks \/ NextBlock \/ NoMoreBlocks \/ HandOver

SpecExtract == InitExtract /\ [][NextExtract]_vars

\* what the two parses of a candidate give: whether it is accepted, and its
\* calendar_operations value
Accepted(c) ==
  LET strict == json_loads(c)
      cleaned == json_loads(Cleaned(c))
  IN IF strict.ok THEN [ok |-> HasKey(strict.data), data |-> strict.data]
     ELSE [ok |-> cleaned.ok /\ HasKey(cleaned.data), data |-> cleaned.data]

\* the value of the first accepted candidate, the empty list if there is none
RECURSIVE FirstAccepted(_)
FirstAccepted(cands) ==
  IF cands = <<>> THEN JArr(<<>>)
  ELSE IF Accepted(Head(cands)).ok THEN ValueOfKey(Accepted(Head(cands)).data)
  ELSE FirstAccepted(Tail(cands))

IsFenced(g) == g.kind = "fenced"

\* a brace region that is not fenced and contains calendar_operations
IsBareWithKey(g) ==
  g.kind = "bare" /\ \E i \in 1..Len(g.content) : g.content[i] \in {Key, KeySingle}

ContentsOf(segs) == [i \in 1..Len(segs) |-> segs[i].content]

\* the candidates of a response: its fenced blocks in order or, when it has
\* none, its unfenced brace regions that contain calendar_operations
Candidates(segs) ==
  IF SelectSeq(segs, IsFenced) # <<>> THEN ContentsOf(SelectSeq(segs, IsFenced))
  ELSE ContentsOf(SelectSeq(segs, IsBareWithKey))

\* C14: extract_calendar_operations returns the calendar_operations value of
\* the first candidate that parses, strictly or after the single quotes are
\* replaced by double quotes, and contains that key, where the candidates are
\* the fenced blocks of the response in order or, when there is none, its
\* unfenced brace regions that contain calendar_operations; it returns the
\* empty list when no candidate qualifies.
C14_FirstAcceptedCandidateWins ==
  pc = "extracted" => operations = FirstAccepted(Candidates(segments))

\* a JSON value that is a list of dicts
IsOperationList(v) ==
  v.t = "arr" /\ \A i \in 1..Len(v.v) : v.v[i].t = "obj"

\* C15: a candidate whose calendar_operations value is not an array is not
\* accepted: what query_ollama hands to process_calendar_operations is a list
\* of operation objects.
C15_OperationsIsAList ==
  pc = "dispatched" => IsOperationList(operations)

(***************************************************************************)
(* The time normalizer: convert_to_24h.  A time string is the sequence of  *)
(* its characters.                                                         *)
(***************************************************************************)
MaxHour == 24

MaxQuarter == 4

Digits == <<"0", "1", "2", "3", "4", "5", "6", "7", "8", "9">>

\* \d
IsDigit(c) == \E d \in 1..10 : Digits[d] = c

\* int(c) of one digit
DigitValue(c) == (CHOOSE d \in 1..10 : Digits[d] = c) - 1

\* int(s) of a string of digits
RECURSIVE IntOf(_)
IntOf(s) ==
  IF s = <<>> THEN 0 ELSE IntOf(SubSeq(s, 1, Len(s) - 1)) * 10 + DigitValue(s[Len(s)])

\* time_str.lower()
LowerText(s) == [i \in 1..Len(s) |-> LowerChar(s[i])]

\* time_str.strip()
RECURSIVE Strip(_)
Strip(s) ==
  IF s # <<>> /\ Head(s) = Space THEN Strip(Tail(s))
  ELSE IF s # <<>> /\ s[Len(s)] = Space THEN Strip(SubSeq(s, 1, Len(s) - 1))
  ELSE s

\* (\d+) at i: the index after the longest run of digits that begins at i
\* (i itself when there is no digit at i)
RECURSIVE AfterDigits(_, _)
AfterDigits(s, i) ==
  IF i <= Len(s) /\ IsDigit(s[i]) THEN AfterDigits(s, i + 1) ELSE i

\* (\d+)(?::(\d+))? at the start of s: hour and minute as int() reads them,
\* and the index after the match
HourMinute(s) ==
  LET h == AfterDigits(s, 1)
      m == AfterDigits(s, h + 1)
      hasMinute == At(s, h) = ":" /\ m > h + 1
  IN [ok |-> h > 1,
      hour |-> IntOf(SubSeq(s, 1, h - 1)),
      minute |-> IF hasMinute THEN IntOf(SubSeq(s, h + 1, m - 1)) ELSE 0,
      end |-> IF hasMinute THEN m ELSE h]

\* \s*(am|pm) at i: "am", "pm", or "" when it does not match
AmPm(s, i) ==
  LET j == SkipWs(s, i)
  IN IF At(s, j) \in {"a", "p"} /\ At(s, j + 1) = "m" THEN <<s[j], "m">> ELSE <<>>

\* a faulty Adjust: pm adds 12 to every hour
Adjust_PmAlways(hour, ampm) ==
  IF ampm = <<"p", "m">> THEN hour + 12
  ELSE IF ampm = <<"a", "m">> /\ hour = 12 THEN 0
  ELSE hour

\* if ampm == 'pm' and hour < 12: hour += 12; elif ampm == 'am' and hour == 12:
\* hour = 0
Adjust(hour, ampm) ==
  IF ampm = <<"p", "m">> /\ hour < 12 THEN hour + 12
  ELSE IF ampm = <<"a", "m">> /\ hour = 12 THEN 0
  ELSE hour

convert_to_24h(str) ==
  LET s == Strip(LowerText(str))
      hm == HourMinute(s)
      ampm == AmPm(s, hm.end)
  IN IF hm.ok /\ ampm # <<>> THEN Adjust(hm.hour, ampm) * 60 + hm.minute
     ELSE IF hm.ok THEN hm.hour * 60 + hm.minute
     ELSE 0

(***************************************************************************)
(* The time strings.  A string of one of the two shapes is written from    *)
(* its parts: an hour, with or without a leading zero, a minute or none    *)
(* (-1), the suffix or none, and the white space before the hour, before   *)
(* the suffix and at the end; junk tells whether something else follows.   *)
(***************************************************************************)
Hours == 0..MaxHour

Minutes == {15 * k : k \in 0..MaxQuarter}

Suffixes == {<<>>, <<"a", "m">>, <<"p", "m">>, <<"A", "M">>, <<"P", "m">>}

\* the decimal digits of n
RECURSIVE Decimal(_)
Decimal(n) ==
  IF n < 10 THEN <<Digits[n + 1]>> ELSE Decimal(n \div 10) \o <<Digits[(n % 10) + 1]>>

\* n in two digits at least
TwoDigits(n) == IF n < 10 THEN <<"0">> \o Decimal(n) ELSE Decimal(n)

Blank(b) == IF b THEN <<Space>> ELSE <<>>

Shapes ==
  [kind : {"shape"}, hour : Hours, pad : BOOLEAN, minute : {-1} \cup Minutes,
   ampm : Suffixes, lead : BOOLEAN, gap : BOOLEAN, trail : BOOLEAN, junk : BOOLEAN]

\* strings that do not begin with a digit
Others ==
  {[kind |-> "other", text |-> t] :
     t \in {<<>>, <<"a", "m">>, <<":", "3", "0">>, <<"x", "9">>}}

TimeInputs == Shapes \cup Others

\* the string written from its parts
Text(p) ==
  IF p.kind = "shape"
  THEN Blank(p.lead) \o (IF p.pad THEN TwoDigits(p.hour) ELSE Decimal(p.hour))
       \o (IF p.minute >= 0 THEN <<":">> \o TwoDigits(p.minute) ELSE <<>>)
       \o (IF p.ampm # <<>> THEN Blank(p.gap) ELSE <<>>) \o p.ampm \o Blank(p.trail)
       \o (IF p.junk THEN <<"x">> ELSE <<>>)
  ELSE p.text

(***************************************************************************)
(* convert_to_24h as a state machine: pc = "convert" at the call, pc =     *)
(* "converted" at the return.                                              *)
(***************************************************************************)
InitTime ==
  /\ pc = "convert"
  /\ parts \in TimeInputs
  /\ time_str = Text(parts)
  /\ minutes = 0
  /\ StoreAtRest
  /\ NoExtraction
  /\ NoMainLoop

Convert ==
  /\ pc = "convert"
  /\ minutes' = convert_to_24h(time_str)
  /\ pc' = "converted"
  /\ UNCHANGED <<parts, time_str, dispatcherVars, extractorVars, mainVars>>

NextTime == Convert

SpecTime == InitTime /\ [][NextTime]_vars

\* the suffix of a string of the am/pm shape is pm, in any case
IsPm(p) == p.ampm \in {<<"p", "m">>, <<"P", "m">>}

IsAm(p) == p.ampm \in {<<"a", "m">>, <<"A", "M">>}

Minute(p) == IF p.minute >= 0 THEN p.minute ELSE 0

\* C16 as stated: on a string that matches one of the two shapes (at its
\* start, as re.match does), pm adds 12 to the hour unless the hour is 12, am
\* maps the hour 12 to 0, a string without suffix is taken as 24-hour, and the
\* value is hour * 60 + minute; a string that matches neither shape gives 0.
C16_AgreesWithReference ==
  pc = "converted" =>
    IF parts.kind = "shape"
    THEN minutes = Minute(parts) +
           60 * (IF IsPm(parts) THEN (IF parts.hour = 12 THEN 12 ELSE parts.hour + 12)
                 ELSE IF IsAm(parts) /\ parts.hour = 12 THEN 0
                 ELSE parts.hour)
    ELSE minutes = 0

\* C16 amended: as C16, but pm adds 12 only to an hour below 12; an hour of
\* 12 or more is kept as it is.
C16_AgreesWithReferenceAmended ==
  pc = "converted" =>
    IF parts.kind = "shape"
    THEN minutes = Minute(parts) +
           60 * (IF IsPm(parts) /\ parts.hour < 12 THEN parts.hour + 12
                 ELSE IF IsAm(parts) /\ parts.hour = 12 THEN 0
                 ELSE parts.hour)
    ELSE minutes = 0

\* " 11:30 Pm" has been converted, and gave 1410
C16_Witness ==
  /\ pc = "converted"
  /\ parts.kind = "shape"
  /\ time_str = <<" ", "1", "1", ":", "3", "0", " ", "P", "m">>
  /\ minutes = 1410

\* C17: convert_to_24h returns an integer in 0..1439 for every time string.
C17_InRange ==
  pc = "converted" => minutes \in 0..1439

(***************************************************************************)
(* The context summarizer: get_calendar_context.  The text returned is the *)
(* sequence of its day blocks, each the date of its header line and its    *)
(* lines; a line is the tuple of its pieces.                               *)
(***************************************************************************)
MaxDaysAhead == 2

\* date.strftime("%Y-%m-%d") of today + i days, where today is 2025-03-14
DateStr(i) ==
  CASE i = 0 -> "2025-03-14"
    [] i = 1 -> "2025-03-15"
    [] i = 2 -> "2025-03-16"
    [] i = 3 -> "2025-03-17"

\* day_name of today + i days
DayName(i) ==
  CASE i = 0 -> "Today"
    [] i = 1 -> "Tomorrow"
    [] i = 2 -> "Sunday, Mar 16"
    [] i = 3 -> "Monday, Mar 17"

Placeholder == <<"- No events scheduled">>

\* the key of sorted(): convert_to_24h(x["start_time"])
SortKey(e) == convert_to_24h(Chars(e.start_time))

\* e is placed after the last element of sorted whose key is not above its own
InsertByKey(sorted, e) ==
  LET Below == {k \in 1..Len(sorted) : SortKey(sorted[k]) <= SortKey(e)}
      at == IF Below = {} THEN 0 ELSE CHOOSE k \in Below : \A j \in Below : j <= k
  IN SubSeq(sorted, 1, at) \o <<e>> \o SubSeq(sorted, at + 1, Len(sorted))

\* sorted(day_events, key=...): a stable sort
RECURSIVE Sorted(_)
Sorted(day_events) ==
  IF day_events = <<>> THEN <<>>
  ELSE InsertByKey(Sorted(SubSeq(day_events, 1, Len(day_events) - 1)),
                   day_events[Len(day_events)])

\* the sort key of e can be computed: the key is there and holds a str
StartIsStr(e) == "start_time" \in DOMAIN e /\ IsStr(e.start_time)

\* the line of e can be written: every key it reads is there
HasLineKeys(e) == {"start_time", "end_time", "title", "description", "id"} \subseteq DOMAIN e

\* the line of the event e
Line(e) ==
  <<"- ", e.start_time, "-", e.end_time, ": ", e.title>>
  \o (IF Truthy(e.description) THEN <<" (", e.description, ")">> ELSE <<>>)
  \o <<" [ID: ", e.id, "]">>

\* the block of today + i days
DayBlock(ev, i) ==
  LET day_events == get_events_for_day(ev, DateStr(i))
  IN IF day_events = <<>>
     THEN [raised |-> FALSE, date |-> DateStr(i), name |-> DayName(i),
           events |-> <<>>, lines |-> <<Placeholder>>]
     ELSE IF \E k \in 1..Len(day_events) :
               ~StartIsStr(day_events[k]) \/ ~HasLineKeys(day_events[k])
     THEN [raised |-> TRUE, date |-> DateStr(i), name |-> DayName(i),
           events |-> <<>>, lines |-> <<>>]
     ELSE [raised |-> FALSE, date |-> DateStr(i), name |-> DayName(i),
           events |-> Sorted(day_events),
           lines |-> [k \in 1..Len(day_events) |-> Line(Sorted(day_events)[k])]]

\* get_calendar_context(days_ahead): whether it raised, and the blocks of the
\* text it returned
get_calendar_context(ev, days_ahead) ==
  [raised |-> \E i \in 0..(days_ahead - 1) : DayBlock(ev, i).raised,
   blocks |-> [i \in 1..days_ahead |-> DayBlock(ev, i - 1)]]

\* the order of b is that of a stable sort of day by SortKey: b is day
\* rearranged by f, keys ascend, and equal keys keep their order in day
IsStableSort(day, b) ==
  /\ Len(b) = Len(day)
  /\ \E f \in [1..Len(day) -> 1..Len(day)] :
       /\ \A x, y \in 1..Len(day) : x # y => f[x] # f[y]
       /\ \A k \in 1..Len(day) : b[k] = day[f[k]]
       /\ \A x, y \in 1..Len(day) :
            x < y => \/ SortKey(day[f[x]]) < SortKey(day[f[y]])
                     \/ SortKey(day[f[x]]) = SortKey(day[f[y]]) /\ f[x] < f[y]

\* the line shows the id of e
ShowsId(line, e) == \E k \in 1..Len(line) : line[k] = e.id

\* the blocks are those of the claim for the store ev and n days
RendersStore(ev, n) ==
  LET c == get_calendar_context(ev, n)
  IN /\ ~c.raised
     /\ Len(c.blocks) = n
     /\ \A i \in 1..n :
          LET day == get_events_for_day(ev, DateStr(i - 1))
              blk == c.blocks[i]
          IN /\ blk.date = DateStr(i - 1)
             /\ IF day = <<>> THEN blk.lines = <<Placeholder>>
                ELSE /\ Len(blk.lines) = Len(day)
                     /\ IsStableSort(day, blk.events)
                     /\ \A k \in 1..Len(day) : ShowsId(blk.lines[k], blk.events[k])

\* C18: on every store the program reaches, get_calendar_context(days_ahead)
\* gives days_ahead blocks, for today, today + 1, ... in this order; a block
\* holds the placeholder line when its day is absent or empty, and otherwise
\* one line per event of the day, showing its id, in the order of a stable
\* sort by convert_to_24h(start_time).
C18_ContextRendersWindow ==
  \A n \in 0..MaxDaysAhead : RendersStore(events, n)

FiveFields == {"id", "title", "start_time", "end_time", "description"}

\* C20: every event of the store, in memory and in the file a restart would
\* load, has the five fields id, title, start_time, end_time and description,
\* and get_calendar_context and delete_events_by_title complete on both.
C20_EventsHaveFiveFields ==
  \A ev \in {events, load_calendar(file)} :
    /\ \A k \in 1..Len(AllEvents(ev)) : DOMAIN AllEvents(ev)[k] = FiveFields
    /\ ~get_calendar_context(ev, MaxDaysAhead).raised
    /\ ~delete_events_by_title(Store(ev, file, uuids), "GY").raised

(***************************************************************************)
(* Construction of the store on a file in any state, and the first call of *)
(* a store operation after it.  events_type is type(self.events); events   *)
(* is the content of self.events: the map of a dict, the items of a list,  *)
(* the text of a str, the token of a number or of None.                    *)
(*   pc = "construct": CalendarManager(...) is about to be called          *)
(*   pc = "loaded":    it returned                                         *)
(*   pc = "done":      the store operation op returned; ret is its value   *)
(*   pc = "raised":    an exception was raised, by the construction when   *)
(*                     op is NoOp and by the store operation op otherwise  *)
(* before.file is the file as the construction found it.                   *)
(***************************************************************************)
FileNames ==
  {"absent", "empty", "garbage", "undecodable", "{}", "object", "[]", "list",
   "str", "date", "number", "null"}

\* the file of each name; a document that is not an object carries the type
\* json.load gives for it
FileState(name) ==
  LET event == Slot("Gym") @@ ("id" :> "x1")
  IN CASE name = "absent" -> [kind |-> "absent"]
       [] name \in {"empty", "garbage"} -> [kind |-> "malformed"]
       [] name = "undecodable" -> [kind |-> "undecodable"]
       [] name = "{}" -> save_calendar(EmptyDict)
       [] name = "object" -> save_calendar(<<[k |-> "2025-03-14", v |-> <<event>>]>>)
       [] name = "[]" -> [kind |-> "json", type |-> "list", doc |-> <<>>]
       [] name = "list" -> [kind |-> "json", type |-> "list", doc |-> <<event>>]
       [] name = "str" -> [kind |-> "json", type |-> "str", doc |-> ""]
       [] name = "date" -> [kind |-> "json", type |-> "str", doc |-> "2025-03-14"]
       [] name = "number" -> [kind |-> "json", type |-> "int", doc |-> Number]
       [] name = "null" -> [kind |-> "json", type |-> "NoneType", doc |-> None]

\* the type of load_calendar's value: that of the document, dict for {} also
TypeOf(f) == IF "type" \in DOMAIN f THEN f.type ELSE "dict"

\* one well-formed call of every store operation and every date
LoadCalls ==
  UNION {{AddEntry(d, "Gym"), DeleteEntry(d, "x1"),
          UpdateEntry(d, "x1", [dict |-> [title |-> "Run"]]),
          MoveEntry(d, "x1", "2025-03-15"), ClearEntry(d),
          ReorganizeEntry(d, <<Slot("gym")>>),
          [operation |-> "get_events_for_day", date |-> d]} : d \in Dates}
  \cup {ByTitleEntry("GY"), [operation |-> "get_calendar_context"]}

\* whether the store operation of o raises when self.events is not a dict but
\* has the given type and content.  "date_str in self.events" raises
\* TypeError on a number and on None, is a substring test on a str and is
\* false on a list of dicts; indexing with a str raises TypeError on a list
\* and on a str; .get is no attribute of any of them.
RaisesOnNonDict(type, content, o) ==
  LET k == o.operation
      date_str == IF k = "move_event" THEN o.old_date ELSE Get(o, "date")
      inRaises == type \in {"int", "NoneType"}
      in == type = "str" /\ content = date_str
      empty == (type = "list" /\ content = <<>>) \/ (type = "str" /\ content = "")
  IN CASE k \in {"get_events_for_day", "get_calendar_context"} -> TRUE
       [] k \in {"add_event", "reorganize_day"} -> TRUE
       [] k = "delete_events_by_title" -> inRaises \/ ~empty
       [] k \in {"delete_event", "update_event", "move_event", "clear_day"} ->
            inRaises \/ in

InitLoad ==
  /\ pc = "construct"
  /\ \E name \in FileNames : file = FileState(name)
  /\ events = EmptyDict
  /\ events_type = "dict"
  /\ loadFailed = FALSE
  /\ uuids = 0
  /\ op = NoOp
  /\ ret = NoRet
  /\ before = NoBefore
  /\ result = <<>>
  /\ returned = <<>>
  /\ NoExtraction
  /\ NoConversion
  /\ NoMainLoop

\* CalendarManager.__init__: ensure_calendar_file, then load_calendar, which
\* catches JSONDecodeError and nothing else
Construct ==
  /\ pc = "construct"
  /\ before' = Before(EmptyDict, file, uuids, <<>>)
  /\ IF file.kind = "undecodable"
     THEN /\ pc' = "raised"
          /\ UNCHANGED <<events, events_type, file, loadFailed>>
     ELSE /\ pc' = "loaded"
          /\ file' = ensure_calendar_file(file)
          /\ events' = load_calendar(ensure_calendar_file(file))
          /\ events_type' = TypeOf(file)
          /\ loadFailed' = (file.kind = "malformed")
  /\ UNCHANGED <<uuids, op, ret, result, returned, extractorVars, timeVars, mainVars>>

\* the store operation of o is called on the store just built
CallMethod(o) ==
  /\ pc = "loaded"
  /\ op' = o
  /\ IF events_type # "dict"
     THEN /\ pc' = IF RaisesOnNonDict(events_type, events, o) THEN "raised" ELSE "done"
          /\ ret' = [NoRet EXCEPT !.called = TRUE,
                                  !.raised = RaisesOnNonDict(events_type, events, o)]
          /\ UNCHANGED <<events, file, uuids>>
     ELSE IF o.operation = "get_events_for_day"
     THEN /\ pc' = "done"
          /\ ret' = [NoRet EXCEPT !.called = TRUE,
                                  !.list = get_events_for_day(events, o.date)]
          /\ UNCHANGED <<events, file, uuids>>
     ELSE IF o.operation = "get_calendar_context"
     THEN /\ pc' = IF get_calendar_context(events, MaxDaysAhead).raised
                   THEN "raised" ELSE "done"
          /\ ret' = [NoRet EXCEPT !.called = TRUE,
                                  !.raised = get_calendar_context(events, MaxDaysAhead).raised]
          /\ UNCHANGED <<events, file, uuids>>
     ELSE \E d \in {Dispatch(Store(events, file, uuids), o)} :
            /\ events' = d.call.s.events
            /\ file' = d.call.s.file
            /\ uuids' = d.call.s.uuids
            /\ ret' = [called |-> d.called, raised |-> d.call.raised, bool |-> d.call.bool,
                       list |-> d.call.list, id |-> d.call.id]
            /\ pc' = IF d.call.raised THEN "raised" ELSE "done"
  /\ UNCHANGED <<events_type, loadFailed, before, result, returned>>
  /\ UNCHANGED <<extractorVars, timeVars, mainVars>>

NextLoad ==
  \/ Construct
  \/ \E o \in LoadCalls : CallMethod(o)

SpecLoad == InitLoad /\ [][NextLoad]_vars

\* the file the construction found is no well-formed map of dates to events:
\* its text does not parse, or it parses to something that is not an object
NotAMap(f) == f.kind \in {"malformed", "undecodable"} \/ TypeOf(f) # "dict"

\* C19: the construction of the store raises on no file.  On an absent file
\* it leaves a file that holds {} and an empty store; on a file that is not a
\* well-formed map it leaves an empty store, and the store operation called
\* next on the store of either does not raise.
C19_ConstructionNeverFails ==
  /\ pc = "raised" => op # NoOp
  /\ (pc = "loaded" /\ before.file.kind = "absent") =>
       file = save_calendar(EmptyDict) /\ events_type = "dict" /\ events = EmptyDict
  /\ (pc = "loaded" /\ NotAMap(before.file)) =>
       events_type = "dict" /\ events = EmptyDict
  /\ (pc = "raised" /\ op # NoOp) =>
       ~(before.file.kind = "absent" \/ NotAMap(before.file))

\* the keys of self.events
Keys(ev) == {ev[i].k : i \in 1..Len(ev)}

\* the store operations that take the date of a day
DateScoped ==
  {"add_event", "delete_event", "update_event", "clear_day", "reorganize_day", "move_event"}

\* the days the call for op names
Named == IF Kind = "move_event" THEN {op.old_date, op.new_date} ELSE {op.date}

\* C21: a call of add_event, delete_event, update_event, clear_day or
\* reorganize_day with date d, whether it returns or raises, leaves every day
\* other than d in the store with the sequence it had, and a call of
\* move_event leaves every day other than old_date and new_date so; an event
\* that carries the id given to delete_event or update_event and is stored
\* under another day is among what is left as it was.
C21_OnlyNamedDaysChange ==
  (pc \in {"done", "raised"} /\ ret.called /\ Kind \in DateScoped) =>
    \A d \in (Keys(events) \cup Keys(before.events)) \ Named :
      /\ HasDay(events, d)
      /\ HasDay(before.events, d)
      /\ Day(events, d) = Day(before.events, d)

\* delete_event or update_event changed a day while another day holds an
\* event with the id they were given
C21_Witness ==
  /\ Returned("delete_event") \/ Returned("update_event")
  /\ ret.bool
  /\ events # before.events
  /\ \E d \in Keys(before.events) \ {op.date} :
       op.event_id \in Ids(Day(before.events, d))

(***************************************************************************)
(* The main loop: main, from the head of its while True.                   *)
(*   pc = "read":        at input(), in the loop                           *)
(*   pc = "exited":      main returned on an exit or quit command          *)
(*   pc = "interrupted": the handler of KeyboardInterrupt ran, main        *)
(*                       returned                                          *)
(*   pc = "raised":      an exception that main does not catch ended the   *)
(*                       process                                           *)
(* history is the list main holds, history_file the file it is loaded from *)
(* and saved to, lines the lines of the prompt typed so far.  A prompt is  *)
(* the sequence of its lines.  submitted is a history variable: the        *)
(* prompts query_ollama was called with.                                   *)
(***************************************************************************)
MaxLines == 2

\* the number of positional parameters of query_ollama
Parameters == 4

\* the number of positional arguments main calls it with
Arguments == 5

\* json.dump(history, f)
save_history(h) == [kind |-> "json", doc |-> h]

InitMain ==
  LET load_history(f) == IF f.kind = "json" THEN f.doc ELSE <<>>
      earlier == [timestamp |-> "<then>", prompt |-> <<"gym">>, response |-> "<response>"]
  IN /\ pc = "read"
     /\ history_file \in {[kind |-> "absent"], [kind |-> "malformed"],
                          save_history(<<>>), save_history(<<earlier>>)}
     /\ history = load_history(history_file)
     /\ lines = <<>>
     /\ text_input \in BOOLEAN
     /\ submitted = <<>>
     /\ StoreAtRest
     /\ NoExtraction
     /\ NoConversion

\* lines 113 to 124 for a prompt that is not falsy, and the next iteration's
\* lines = []: the call of query_ollama raises TypeError when it is given
\* more positional arguments than the function has parameters
Turn(prompt) ==
  /\ submitted' = Append(submitted, prompt)
  /\ lines' = <<>>
  /\ IF Arguments > Parameters
     THEN /\ pc' = "raised"
          /\ UNCHANGED <<history, history_file>>
     ELSE /\ history' = Append(history, [timestamp |-> "<now>", prompt |-> prompt,
                                         response |-> "<response>"])
          /\ history_file' = save_history(history')
          /\ pc' = "read"

\* text input: input() returns line.  The prompt is "\n".join(lines), which
\* is the empty str when lines holds one empty line
ReadLine(line) ==
  /\ pc = "read"
  /\ text_input
  /\ IF line = "" /\ lines # <<>>
     THEN IF lines = <<"">>
          THEN /\ lines' = <<>>
               /\ UNCHANGED <<pc, history, history_file, submitted>>
          ELSE Turn(lines)
     ELSE IF Lower(line) \in {Chars("exit"), Chars("quit")}
     THEN /\ history_file' = save_history(history)
          /\ pc' = "exited"
          /\ UNCHANGED <<history, lines, submitted>>
     ELSE /\ Len(lines) < MaxLines
          /\ lines' = Append(lines, line)
          /\ UNCHANGED <<pc, history, history_file, submitted>>
  /\ UNCHANGED <<text_input, dispatcherVars, extractorVars, timeVars>>

\* voice input: input() returns user_input, then transcribe_audio returns
\* heard, the text or None
ReadCommand(user_input, heard) ==
  /\ pc = "read"
  /\ ~text_input
  /\ IF Lower(user_input) \in {Chars("exit"), Chars("quit")}
     THEN /\ history_file' = save_history(history)
          /\ pc' = "exited"
          /\ UNCHANGED <<history, lines, submitted>>
     ELSE IF heard = None
     THEN UNCHANGED <<pc, history, history_file, lines, submitted>>
     ELSE Turn(heard)
  /\ UNCHANGED <<text_input, dispatcherVars, extractorVars, timeVars>>

\* input() raises: KeyboardInterrupt is caught and the history saved, EOFError
\* (the input is at its end) is not caught
InputRaises(exception) ==
  /\ pc = "read"
  /\ IF exception = "KeyboardInterrupt"
     THEN /\ history_file' = save_history(history)
          /\ pc' = "interrupted"
     ELSE /\ pc' = "raised"
          /\ UNCHANGED history_file
  /\ UNCHANGED <<history, lines, text_input, submitted>>
  /\ UNCHANGED <<dispatcherVars, extractorVars, timeVars>>

NextMain ==
  \/ \E line \in {"", "exit", "Quit", "gym", "Run"} : ReadLine(line)
  \/ \E user_input \in {"", "exit", "Quit", "gym", "Run"}, heard \in {None, <<"gym">>, <<"Run">>} :
       ReadCommand(user_input, heard)
  \/ \E exception \in {"KeyboardInterrupt", "EOFError"} : InputRaises(exception)

SpecMain == InitMain /\ [][NextMain]_vars

\* the prompts of the entries the history file holds
SavedPrompts ==
  IF history_file.kind = "json"
  THEN {history_file.doc[i].prompt : i \in 1..Len(history_file.doc)}
  ELSE {}

\* C22: the process ends only by the return on an exit or quit command or by
\* the handler of a keyboard interrupt, never by an exception; and when it
\* has ended, the history file holds the history, with an entry for every
\* prompt query_ollama was called with.
C22_EndsOnlyAfterSaving ==
  pc \in {"exited", "interrupted", "raised"} =>
    /\ pc # "raised"
    /\ history_file = save_history(history)
    /\ \A i \in 1..Len(submitted) : submitted[i] \in SavedPrompts

====
